---------------------------- MODULE Spec2Model ----------------------------
(***************************************************************************)
(* Model of jsonToXml (src/main.go): a command line tool that fetches a    *)
(* JSON document from each of a list of URLs, converts it to XML and       *)
(* writes one output file per URL.                                         *)
(*                                                                         *)
(* Text is modelled as a sequence of chunks.  A chunk is a TLA+ string     *)
(* holding either one character that some conversion treats specially or   *)
(* a run of plain characters.  Str(s) is the text the chunks spell.        *)
(* A JSON document is a sequence of lexical tokens (punctuation, string,   *)
(* number and literal tokens); white space between tokens is not           *)
(* represented.  An XML document is a sequence of chunks in which every    *)
(* tag, every character reference and every white space character is one   *)
(* chunk.                                                                  *)
(***************************************************************************)
EXTENDS Integers, Sequences, FiniteSets, TLC

(***************************************************************************)
(* Bounds of the model.                                                    *)
(***************************************************************************)
\* Longest URL list of a run.
MaxUrls == 2
\* Longest value of a string field of a generated Record.
MaxLen == 1

(***************************************************************************)
(* Text                                                                    *)
(***************************************************************************)
RECURSIVE Str(_)
Str(s) == IF s = <<>> THEN "" ELSE Head(s) \o Str(Tail(s))

RECURSIVE Repeat(_, _)
Repeat(c, n) == IF n <= 0 THEN <<>> ELSE <<c>> \o Repeat(c, n - 1)

\* A character outside the XML character range (U+0001), and the Unicode
\* replacement character.
NonXmlChar == "U+0001"
ReplacementChar == "U+FFFD"

\* The characters the generated string values are made of.
Chars == {"a", "<", "&", NonXmlChar}

RECURSIVE SeqsUpTo(_, _)
SeqsUpTo(S, n) ==
    IF n = 0 THEN {<<>>}
    ELSE LET shorter == SeqsUpTo(S, n - 1)
         IN  shorter \cup {Append(s, c) : s \in shorter, c \in S}

(***************************************************************************)
(* jsonData (src/main.go:23-29) and IsEmpty (src/main.go:32-35)            *)
(***************************************************************************)
\* var p jsonData: the zero value.
ZeroData == [Id |-> 0, FirstName |-> <<>>, LastName |-> <<>>,
             City |-> <<>>, State |-> <<>>]

\* IsEmpty looking at the Id and the two names only.
IsEmpty_NamesOnly(p) ==
    p.Id = 0 /\ Len(p.FirstName) = 0 /\ Len(p.LastName) = 0

IsEmpty(p) ==
    p.Id = 0 /\ Len(p.FirstName) = 0 /\ Len(p.LastName) = 0 /\
    Len(p.City) = 0 /\ Len(p.State) = 0

(***************************************************************************)
(* strconv: decimal text of an int, and back.                              *)
(***************************************************************************)
Digits == <<"0", "1", "2", "3", "4", "5", "6", "7", "8", "9">>

RECURSIVE NatToChunks(_)
NatToChunks(n) ==
    IF n < 10 THEN <<Digits[n + 1]>>
    ELSE NatToChunks(n \div 10) \o <<Digits[(n % 10) + 1]>>

Itoa(n) == IF n < 0 THEN <<"-">> \o NatToChunks(0 - n) ELSE NatToChunks(n)

DigitValue(c) == CHOOSE d \in 0..9 : Digits[d + 1] = c

IsDigit(c) == \E d \in 0..9 : Digits[d + 1] = c

RECURSIVE ChunksToNat(_, _)
ChunksToNat(s, acc) ==
    IF s = <<>> THEN acc
    ELSE ChunksToNat(Tail(s), acc * 10 + DigitValue(Head(s)))

\* strconv.ParseInt: [ok, n].
Atoi(s) ==
    LET neg  == s # <<>> /\ Head(s) = "-"
        body == IF neg THEN Tail(s) ELSE s
    IN  IF body = <<>> \/ \E k \in 1..Len(body) : ~IsDigit(body[k])
        THEN [ok |-> FALSE, n |-> 0]
        ELSE [ok |-> TRUE,
              n  |-> IF neg THEN 0 - ChunksToNat(body, 0)
                     ELSE ChunksToNat(body, 0)]


(***************************************************************************)
(* JSON documents as token sequences, and encoding/json's Unmarshal into a *)
(* jsonData (src/main.go:170).                                             *)
(***************************************************************************)
P(c) == [t |-> "punct", v |-> c]
S(s) == [t |-> "str", v |-> s]
N(n) == [t |-> "num", v |-> n]
\* A number with a fraction part, such as 1.5.
Frac == [t |-> "frac", v |-> "1.5"]
L(x) == [t |-> "lit", v |-> x]
\* An invalid lexeme, such as a bare word or a bad escape.
BadLexeme == [t |-> "bad", v |-> "?"]

IsP(tok, c) == tok.t = "punct" /\ tok.v = c

IsScalar(tok) == tok.t \in {"str", "num", "frac", "lit"}

\* The scanner behind json.Unmarshal's checkValid: the position after the
\* value that starts at toks[i], or 0 when no value starts there.
RECURSIVE SkipValue(_, _)
RECURSIVE SkipMembers(_, _)
RECURSIVE SkipElems(_, _)
SkipValue(toks, i) ==
    IF i < 1 \/ i > Len(toks) THEN 0
    ELSE IF IsScalar(toks[i]) THEN i + 1
    ELSE IF IsP(toks[i], "{")
         THEN IF i + 1 <= Len(toks) /\ IsP(toks[i + 1], "}") THEN i + 2
              ELSE SkipMembers(toks, i + 1)
    ELSE IF IsP(toks[i], "[")
         THEN IF i + 1 <= Len(toks) /\ IsP(toks[i + 1], "]") THEN i + 2
              ELSE SkipElems(toks, i + 1)
    ELSE 0

\* toks[i] must start `"key": value`, followed by "," and more, or by "}".
SkipMembers(toks, i) ==
    IF i + 1 > Len(toks) THEN 0
    ELSE IF toks[i].t # "str" \/ ~IsP(toks[i + 1], ":") THEN 0
    ELSE LET j == SkipValue(toks, i + 2)
         IN  IF j = 0 \/ j > Len(toks) THEN 0
             ELSE IF IsP(toks[j], "}") THEN j + 1
             ELSE IF IsP(toks[j], ",") THEN SkipMembers(toks, j + 1)
             ELSE 0

SkipElems(toks, i) ==
    LET j == SkipValue(toks, i)
    IN  IF j = 0 \/ j > Len(toks) THEN 0
        ELSE IF IsP(toks[j], "]") THEN j + 1
        ELSE IF IsP(toks[j], ",") THEN SkipElems(toks, j + 1)
        ELSE 0

\* checkValid: the whole input is exactly one JSON value.
ValidJSON(toks) == SkipValue(toks, 1) = Len(toks) + 1

\* The field of jsonData a JSON key selects: the field's json tag or, with
\* no tag, its name, compared ignoring case (the spellings listed are the
\* ones the model's documents use).
FieldOf(key) ==
    CASE key \in {"Id", "id", "ID"} -> "Id"
      [] key \in {"first_name", "First_Name"} -> "FirstName"
      [] key \in {"last_name", "LAST_NAME"} -> "LastName"
      [] key \in {"City", "city"} -> "City"
      [] key \in {"State", "state"} -> "State"
      [] OTHER -> "none"

\* Storing the value token v in field f of p: [p, typeErr].  null leaves the
\* field alone; a value of the wrong JSON type is an UnmarshalTypeError and
\* leaves the field alone too.
StoreField(p, f, v) ==
    IF f = "none" \/ (v.t = "lit" /\ v.v = "null")
    THEN [p |-> p, typeErr |-> FALSE]
    ELSE IF f = "Id"
    THEN IF v.t = "num" THEN [p |-> [p EXCEPT !.Id = v.v], typeErr |-> FALSE]
         ELSE [p |-> p, typeErr |-> TRUE]
    ELSE IF v.t = "str" THEN [p |-> [p EXCEPT ![f] = v.v], typeErr |-> FALSE]
         ELSE [p |-> p, typeErr |-> TRUE]

\* decodeState.object on a valid document: the members from toks[i] on,
\* in order (a later duplicate key overwrites an earlier one); decoding
\* goes on after a type error, which is reported at the end.
RECURSIVE DecodeMembers(_, _, _, _)
DecodeMembers(toks, i, p, typeErr) ==
    LET f == FieldOf(Str(toks[i].v))
        j == SkipValue(toks, i + 2)
        r == StoreField(p, f, toks[i + 2])
    IN  IF IsP(toks[j], "}")
        THEN [p |-> r.p, typeErr |-> typeErr \/ r.typeErr]
        ELSE DecodeMembers(toks, j + 1, r.p, typeErr \/ r.typeErr)

\* json.Unmarshal(data, &p) with p the zero jsonData: [p, err], err one of
\* "nil", "syntax" (SyntaxError: p untouched) and "type"
\* (UnmarshalTypeError).
Unmarshal(data) ==
    IF ~ValidJSON(data) THEN [p |-> ZeroData, err |-> "syntax"]
    ELSE IF data[1].t = "lit" /\ data[1].v = "null"
         THEN [p |-> ZeroData, err |-> "nil"]
    ELSE IF ~IsP(data[1], "{") THEN [p |-> ZeroData, err |-> "type"]
    ELSE IF IsP(data[2], "}") THEN [p |-> ZeroData, err |-> "nil"]
    ELSE LET r == DecodeMembers(data, 2, ZeroData, FALSE)
         IN  [p |-> r.p, err |-> IF r.typeErr THEN "type" ELSE "nil"]

\* json.Marshal of a jsonData: the keys are the json tags or field names
\* of src/main.go:23-29, in declaration order.
jsonEncode(r) ==
    << P("{"), S(<<"Id">>), P(":"), N(r.Id), P(","),
       S(<<"first_name">>), P(":"), S(r.FirstName), P(","),
       S(<<"last_name">>), P(":"), S(r.LastName), P(","),
       S(<<"City">>), P(":"), S(r.City), P(","),
       S(<<"State">>), P(":"), S(r.State), P("}") >>

(***************************************************************************)
(* encoding/xml: MarshalIndent of a jsonData (src/main.go:179) and         *)
(* Unmarshal into a jsonData.                                              *)
(***************************************************************************)
Open(n) == "<" \o n \o ">"
Close(n) == "</" \o n \o ">"

\* An empty element written as one self-closing tag.
SelfClosed(n) == "<" \o n \o "/>"

\* xml.EscapeText on one chunk: the five markup characters and the white
\* space characters become character references, a character outside the
\* XML character range becomes U+FFFD, anything else is copied.
EscapeChunk(c) ==
    CASE c = "\"" -> "&#34;"
      [] c = "'" -> "&#39;"
      [] c = "&" -> "&amp;"
      [] c = "<" -> "&lt;"
      [] c = ">" -> "&gt;"
      [] c = "\t" -> "&#x9;"
      [] c = "\n" -> "&#xA;"
      [] c = "\r" -> "&#xD;"
      [] c = NonXmlChar -> ReplacementChar
      [] OTHER -> c

EscapeText(s) == [k \in 1..Len(s) |-> EscapeChunk(s[k])]

Leaf(n, text) == [kind |-> "leaf", name |-> n, text |-> text, kids |-> <<>>]
Elem(n, kids) == [kind |-> "elem", name |-> n, text |-> <<>>, kids |-> kids]

\* The element tree with the two name fields under "name" exchanged.
XMLTree_Swapped(p) ==
    Elem("jsonData",
         << Leaf("Id", Itoa(p.Id)),
            Elem("name", << Leaf("first", p.LastName),
                            Leaf("last", p.FirstName) >>),
            Leaf("City", p.City),
            Leaf("State", p.State) >>)

\* The element tree the xml tags of jsonData give (src/main.go:23-29): the
\* root is named after the type, a field without a tag after the field, and
\* the two "name>..." fields share one parent element "name".
XMLTree(p) ==
    Elem("jsonData",
         << Leaf("Id", Itoa(p.Id)),
            Elem("name", << Leaf("first", p.FirstName),
                            Leaf("last", p.LastName) >>),
            Leaf("City", p.City),
            Leaf("State", p.State) >>)

\* The concatenation of a sequence of texts.
RECURSIVE Flatten(_)
Flatten(ss) == IF ss = <<>> THEN <<>> ELSE Head(ss) \o Flatten(Tail(ss))

\* printer.writeIndent: a line break except before the first line, then the
\* prefix, then the indent once per level.
WriteIndent(prefix, indent, depth, first) ==
    (IF first THEN <<>> ELSE <<"\n">>) \o prefix \o
    Flatten(Repeat(indent, depth))

\* The printer: a start tag on a line of its own; the end tag of an element
\* with child elements on a line of its own, the end tag of any other
\* element right after its text.
RECURSIVE PrintNode(_, _, _, _, _)
RECURSIVE PrintKids(_, _, _, _)
PrintNode(node, prefix, indent, depth, first) ==
    WriteIndent(prefix, indent, depth, first) \o <<Open(node.name)>> \o
    (IF node.kids = <<>>
     THEN EscapeText(node.text)
     ELSE PrintKids(node.kids, prefix, indent, depth + 1) \o
          WriteIndent(prefix, indent, depth, FALSE)) \o
    <<Close(node.name)>>

PrintKids(kids, prefix, indent, depth) ==
    IF kids = <<>> THEN <<>>
    ELSE PrintNode(Head(kids), prefix, indent, depth, FALSE) \o
         PrintKids(Tail(kids), prefix, indent, depth)

\* The printer writing an element without text as a self-closing tag.
RECURSIVE PrintNode_SelfClosing(_, _, _, _, _)
RECURSIVE PrintKids_SelfClosing(_, _, _, _)
PrintNode_SelfClosing(node, prefix, indent, depth, first) ==
    WriteIndent(prefix, indent, depth, first) \o
    (IF node.kids = <<>> /\ node.text = <<>>
     THEN <<SelfClosed(node.name)>>
     ELSE <<Open(node.name)>> \o
          (IF node.kids = <<>>
           THEN EscapeText(node.text)
           ELSE PrintKids_SelfClosing(node.kids, prefix, indent, depth + 1) \o
                WriteIndent(prefix, indent, depth, FALSE)) \o
          <<Close(node.name)>>)

PrintKids_SelfClosing(kids, prefix, indent, depth) ==
    IF kids = <<>> THEN <<>>
    ELSE PrintNode_SelfClosing(Head(kids), prefix, indent, depth, FALSE) \o
         PrintKids_SelfClosing(Tail(kids), prefix, indent, depth)

MarshalIndent_SelfClosing(p, prefix, indent) ==
    PrintNode_SelfClosing(XMLTree(p), prefix, indent, 0, TRUE)

\* xml.MarshalIndent(p, prefix, indent).
MarshalIndent(p, prefix, indent) ==
    PrintNode(XMLTree(p), prefix, indent, 0, TRUE)

\* The element names of the model's documents.
Names == {"jsonData", "record", "Id", "name", "first", "last", "City", "State"}

IsOpen(c) == \E n \in Names : c = Open(n)
IsClose(c) == \E n \in Names : c = Close(n)
IsSelfClosed(c) == \E n \in Names : c = SelfClosed(n)
OpenName(c) == CHOOSE n \in Names : c = Open(n)
CloseName(c) == CHOOSE n \in Names : c = Close(n)
SelfClosedName(c) == CHOOSE n \in Names : c = SelfClosed(n)

\* The decoder on one chunk of character data: [ok, c].  A character
\* reference stands for its character; a bare markup character or a
\* character outside the XML character range is a syntax error.
UnescapeChunk(c) ==
    CASE c = "&#34;" -> [ok |-> TRUE, c |-> "\""]
      [] c = "&#39;" -> [ok |-> TRUE, c |-> "'"]
      [] c = "&amp;" -> [ok |-> TRUE, c |-> "&"]
      [] c = "&lt;" -> [ok |-> TRUE, c |-> "<"]
      [] c = "&gt;" -> [ok |-> TRUE, c |-> ">"]
      [] c = "&#x9;" -> [ok |-> TRUE, c |-> "\t"]
      [] c = "&#xA;" -> [ok |-> TRUE, c |-> "\n"]
      [] c = "&#xD;" -> [ok |-> TRUE, c |-> "\r"]
      [] c \in {"<", "&", NonXmlChar} -> [ok |-> FALSE, c |-> c]
      [] OTHER -> [ok |-> TRUE, c |-> c]

\* The field of jsonData an element path below the root selects.
XMLFieldOf(path) ==
    CASE path = <<"Id">> -> "Id"
      [] path = <<"name", "first">> -> "FirstName"
      [] path = <<"name", "last">> -> "LastName"
      [] path = <<"City">> -> "City"
      [] path = <<"State">> -> "State"
      [] OTHER -> "none"

Front(s) == SubSeq(s, 1, Len(s) - 1)

\* The element whose path is `path` (root included) ends, with character
\* data `text`: [ok, p].  An int field takes the parsed text, 0 when empty.
EndElement(p, path, text) ==
    LET f == XMLFieldOf(Tail(path))
    IN  IF f = "none" THEN [ok |-> TRUE, p |-> p]
        ELSE IF f = "Id"
        THEN IF text = <<>> THEN [ok |-> TRUE, p |-> [p EXCEPT !.Id = 0]]
             ELSE LET a == Atoi(text)
                  IN  [ok |-> a.ok, p |-> [p EXCEPT !.Id = a.n]]
        ELSE [ok |-> TRUE, p |-> [p EXCEPT ![f] = text]]

\* xml.Unmarshal from chunk i on, inside the elements of `path`, with the
\* character data `text` read since the last tag: [ok, p].  The root may
\* have any name (jsonData has no XMLName field); character data outside
\* the fields' elements is dropped.
RECURSIVE Decode(_, _, _, _, _)
Decode(doc, i, path, text, p) ==
    IF i > Len(doc) THEN [ok |-> path = <<>>, p |-> p]
    ELSE LET c == doc[i]
         IN  IF IsOpen(c)
             THEN Decode(doc, i + 1, Append(path, OpenName(c)), <<>>, p)
             ELSE IF IsSelfClosed(c)
             THEN LET r == EndElement(p, Append(path, SelfClosedName(c)), <<>>)
                  IN  IF r.ok THEN Decode(doc, i + 1, path, <<>>, r.p)
                      ELSE [ok |-> FALSE, p |-> p]
             ELSE IF IsClose(c)
             THEN IF path = <<>> \/ path[Len(path)] # CloseName(c)
                  THEN [ok |-> FALSE, p |-> p]
                  ELSE LET r == EndElement(p, path, text)
                       IN  IF r.ok
                           THEN Decode(doc, i + 1, Front(path), <<>>, r.p)
                           ELSE [ok |-> FALSE, p |-> p]
             ELSE LET u == UnescapeChunk(c)
                  IN  IF path = <<>> THEN Decode(doc, i + 1, path, text, p)
                      ELSE IF ~u.ok THEN [ok |-> FALSE, p |-> p]
                      ELSE Decode(doc, i + 1, path, Append(text, u.c), p)

\* xml.Unmarshal(doc, &r) with r the zero jsonData: [ok, p].
xmlDecode(doc) == Decode(doc, 1, <<>>, <<>>, ZeroData)

(***************************************************************************)
(* jsonToXml (src/main.go:168-186)                                         *)
(***************************************************************************)
\* The two arguments of xml.MarshalIndent at src/main.go:179.
Prefix == <<" ">>
Indent == <<" ">>

\* Error values: nil, or a message and the error at the root of the chain
\* of wrapped errors (what errors.Is compares).
Nil == [nil |-> TRUE, msg |-> "", root |-> ""]
NewError(msg) == [nil |-> FALSE, msg |-> msg, root |-> msg]

\* errors.Wrap: nil stays nil; an error gets the message in front.
Wrap(err, msg) ==
    IF err.nil THEN Nil
    ELSE [nil |-> FALSE, msg |-> msg \o ": " \o err.msg, root |-> err.root]

\* src/main.go:48.
ErrUnknownJSON == NewError("JSON is valid but it is not of type jsonData")

\* The errors of json.Unmarshal.
SyntaxError == NewError("unexpected end of JSON input or invalid character")
UnmarshalTypeError == NewError("json: cannot unmarshal value into Go value")

\* The error of a failed Write on the sink.
WriteError == NewError("write failed")

\* What one Write call on the sink does: "ok" takes everything, "short"
\* takes a first part and fails, "fail" takes nothing and fails.
WriteOutcomes == {"ok", "short", "fail"}

\* The part of `data` a Write call with outcome wr puts in the sink.
Written(data, wr) ==
    CASE wr = "ok" -> data
      [] wr = "short" -> SubSeq(data, 1, 1)
      [] OTHER -> <<>>

\* jsonToXml that writes the document and then the error message too.
jsonToXml_WriteOnError(data, wr) ==
    LET u == Unmarshal(data)
    IN  IF u.err # "nil"
        THEN [err |-> Wrap(IF u.err = "syntax" THEN SyntaxError
                           ELSE UnmarshalTypeError, "json.Unmarshal"),
              written |-> <<"error">>, writes |-> 1, xml |-> <<>>]
        ELSE IF IsEmpty(u.p)
        THEN [err |-> ErrUnknownJSON, written |-> <<"error">>, writes |-> 1,
              xml |-> <<>>]
        ELSE LET doc == MarshalIndent(u.p, Prefix, Indent)
             IN  [err |-> Wrap(IF wr = "ok" THEN Nil ELSE WriteError, "write"),
                  written |-> Written(doc, wr), writes |-> 1, xml |-> doc]

\* jsonToXml that goes on after a decode error.
jsonToXml_IgnoreDecodeError(data, wr) ==
    LET u == Unmarshal(data)
    IN  IF IsEmpty(u.p)
        THEN [err |-> ErrUnknownJSON, written |-> <<>>, writes |-> 0,
              xml |-> <<>>]
        ELSE LET doc == MarshalIndent(u.p, Prefix, Indent)
             IN  [err |-> Wrap(IF wr = "ok" THEN Nil ELSE WriteError, "write"),
                  written |-> Written(doc, wr), writes |-> 1, xml |-> doc]

\* jsonToXml(data, w) on a sink whose Write has outcome wr:
\* [err, written, writes, xml], with err the error returned, written what
\* reached the sink, writes the number of Write calls and xml the document
\* MarshalIndent produced (xml.MarshalIndent cannot fail on a jsonData).
jsonToXml(data, wr) ==
    LET u == Unmarshal(data)
    IN  IF u.err # "nil"
        THEN [err |-> Wrap(IF u.err = "syntax" THEN SyntaxError
                           ELSE UnmarshalTypeError, "json.Unmarshal"),
              written |-> <<>>, writes |-> 0, xml |-> <<>>]
        ELSE IF IsEmpty(u.p)
        THEN [err |-> ErrUnknownJSON, written |-> <<>>, writes |-> 0,
              xml |-> <<>>]
        ELSE LET doc == MarshalIndent(u.p, Prefix, Indent)
             IN  [err |-> Wrap(IF wr = "ok" THEN Nil ELSE WriteError, "write"),
                  written |-> Written(doc, wr), writes |-> 1, xml |-> doc]

(***************************************************************************)
(* Documents                                                               *)
(***************************************************************************)
\* {"first_name": "firstname", "last_name":"lastname"}
DocValid ==
    << P("{"), S(<<"first_name">>), P(":"), S(<<"firstname">>), P(","),
       S(<<"last_name">>), P(":"), S(<<"lastname">>), P("}") >>

\* {"id": 10, "first_name": "firstname", "last_name":"lastname"}
DocOk ==
    << P("{"), S(<<"id">>), P(":"), N(10), P(","),
       S(<<"first_name">>), P(":"), S(<<"firstname">>), P(","),
       S(<<"last_name">>), P(":"), S(<<"lastname">>), P("}") >>

\* {"foo":"bar"}
DocUnknown == << P("{"), S(<<"foo">>), P(":"), S(<<"bar">>), P("}") >>

\* {"foo":"bar"
DocMalformed == << P("{"), S(<<"foo">>), P(":"), S(<<"bar">>) >>

\* "last_name":"lastname"}
DocInvalid == << S(<<"last_name">>), P(":"), S(<<"lastname">>), P("}") >>

(***************************************************************************)
(* The HTTP-GET capability (src/main.go:119-121).  What a URL answers is   *)
(* fixed per URL, as in mockClient.Get (src/main_test.go:19-50).           *)
(***************************************************************************)
NoResp == [present |-> FALSE, header |-> <<>>, body |-> <<>>, readOk |-> FALSE]

Response(header, body, readOk) ==
    [present |-> TRUE, header |-> header, body |-> body, readOk |-> readOk]

\* client.Get(url): [err, resp].
Get(url) ==
    CASE url = "valid" ->
           [err |-> Nil, resp |-> Response(<<"application/json">>, DocValid, TRUE)]
      [] url = "ok" ->
           [err |-> Nil, resp |-> Response(<<"application/json">>, DocOk, TRUE)]
      [] url = "invalid" ->
           [err |-> Nil, resp |-> Response(<<>>, DocInvalid, TRUE)]
      [] url = "charset" ->
           [err |-> Nil,
            resp |-> Response(<<"application/json; charset=utf-8">>, DocValid, TRUE)]
      [] url = "unknown" ->
           [err |-> Nil, resp |-> Response(<<"application/json">>, DocUnknown, TRUE)]
      [] url = "malformed" ->
           [err |-> Nil, resp |-> Response(<<"application/json">>, DocMalformed, TRUE)]
      [] url = "cut" ->
           [err |-> Nil, resp |-> Response(<<"application/json">>, DocValid, FALSE)]
      [] OTHER -> [err |-> NewError("Unknown url"), resp |-> NoResp]

\* http.Header.Get: the first value of the header, "" when it is absent.
HeaderGet(header) == IF header = <<>> THEN "" ELSE header[1]

\* %q of a string without characters to escape.
Quote(str) == "\"" \o str \o "\""

\* The header check that accepts any header starting a JSON media type.
ContentTypeOK_Prefix(header) ==
    header \in {"application/json", "application/json; charset=utf-8"}

\* src/main.go:156.
ContentTypeOK(header) == header = "application/json"

\* src/main.go:157-158.
ContentTypeError(header) ==
    NewError("Invalid Content-Type header. Expected application/json, received "
             \o Quote(header))

(***************************************************************************)
(* The flags (src/main.go:47, 58-63)                                       *)
(***************************************************************************)
RECURSIVE TrimLeft(_)
TrimLeft(s) == IF s # <<>> /\ Head(s) = " " THEN TrimLeft(Tail(s)) ELSE s

RECURSIVE TrimRight(_)
TrimRight(s) ==
    IF s # <<>> /\ s[Len(s)] = " " THEN TrimRight(Front(s)) ELSE s

\* strings.TrimSpace.
TrimSpace(s) == TrimRight(TrimLeft(s))

\* The entries between the commas of --urls, as typed.
Entries == { <<"valid">>, <<" ", "ok", " ">>, <<"invalid">>, <<"charset">>,
             <<"unknown">>, <<"malformed">>, <<"cut">>, <<"down">> }

\* The entries a flag may have after its second one.
LaterEntries == { <<"valid">>, <<"down">> }

\* strings.Split(urls, ","): a flag is modelled by its entries; the empty
\* flag has the one entry "".  The flags of the model have one entry, empty
\* or blank or a URL, or up to MaxUrls URLs.
UrlFlags ==
    { <<e>> : e \in Entries \cup {<<>>, <<" ">>} } \cup
    { f \in UNION { [1..n -> Entries] : n \in 2..MaxUrls } :
         \A k \in 3..Len(f) : f[k] \in LaterEntries }

\* len(strings.TrimSpace(urls)) == 0: without a comma and blank.
IsBlankUrls(flag) == Len(flag) = 1 /\ TrimSpace(flag[1]) = <<>>

OutputFlags == { <<"out">>, <<" ">>, <<>> }

\* The result file named without the index.
ResFile_NoIndex(out, i) == Str(out) \o "/" \o "0.xml"

\* The result file of the closure launched for index i (src/main.go:84).
ResFile(out, i) == Str(out) \o "/" \o Str(Itoa(i)) \o ".xml"

Paths == { ResFile(o, i) : o \in OutputFlags, i \in 0..(MaxUrls - 1) }

(***************************************************************************)
(* State                                                                   *)
(***************************************************************************)
VARIABLES
    urls,       \* the --urls flag: its comma separated entries
    output,     \* the --output flag
    mainpc,     \* where run() is
    urlList,    \* run's urlList
    next,       \* the loop index i of run's range loop (0-based)
    dir,        \* the output directory: "absent" or "present"
    files,      \* the files of the output directory: path -> [exists, content]
    workers,    \* the goroutines of the errgroup, by index
    exit,       \* "running", or the exit status of the process: "0" or "1"
    fatal,      \* the log.Fatal call that ended the process, "none" if none
    cpc,        \* converter harness: where it is
    crec,       \* converter harness: the Record encoded as input, if any
    csrc,       \* converter harness: "record" or "document", the input's origin
    cdata,      \* converter harness: the input of jsonToXml
    cres,       \* converter harness: what jsonToXml returned and wrote
    cdec        \* converter harness: xml.Unmarshal of what was written

runVars == <<urls, output, mainpc, urlList, next, dir, files, workers, exit, fatal>>
convVars == <<cpc, crec, csrc, cdata, cres, cdec>>
vars == <<urls, output, mainpc, urlList, next, dir, files, workers, exit, fatal,
          cpc, crec, csrc, cdata, cres, cdec>>

Index == 0..(MaxUrls - 1)

\* A file: whether it exists, what it holds, and which goroutines have
\* written to it.
NoFile == [exists |-> FALSE, content |-> <<>>, writers |-> {}]

\* A goroutine that eg.Go has not started yet.
IdleWorker ==
    [pc |-> "idle", u |-> "", resFile |-> "", sink |-> "none",
     resp |-> NoResp, body |-> <<>>, err |-> Nil, logged |-> "none",
     ret |-> Nil, gets |-> 0, reads |-> 0, convs |-> 0, writes |-> 0,
     closes |-> 0, respCloses |-> 0]

NoResult == [err |-> Nil, written |-> <<>>, writes |-> 0, xml |-> <<>>]
NoDecode == [ok |-> FALSE, p |-> ZeroData]

ConvIdle ==
    /\ cpc = "start"
    /\ crec = ZeroData
    /\ csrc = "none"
    /\ cdata = <<>>
    /\ cres = NoResult
    /\ cdec = NoDecode

RunIdle ==
    /\ urls = <<>>
    /\ output = <<>>
    /\ mainpc = "off"
    /\ urlList = <<>>
    /\ next = 0
    /\ dir = "absent"
    /\ files = [f \in Paths |-> NoFile]
    /\ workers = [i \in Index |-> IdleWorker]
    /\ exit = "running"
    /\ fatal = "none"

\* The process starts run() with some flags; the output directory may or
\* may not exist yet.
Init ==
    /\ urls \in UrlFlags
    /\ output \in OutputFlags
    /\ mainpc = "flags"
    /\ urlList = <<>>
    /\ next = 0
    /\ dir \in {"absent", "present"}
    /\ files = [f \in Paths |-> NoFile]
    /\ workers = [i \in Index |-> IdleWorker]
    /\ exit = "running"
    /\ fatal = "none"
    /\ ConvIdle

\* A goroutine that ended with the process.
KilledWorker == [IdleWorker EXCEPT !.pc = "killed"]

\* log.Fatal: the process exits with status 1 at once.  Its goroutines end
\* where they are, without running their deferred calls; the files stay as
\* they are.
Fatal(site) ==
    /\ exit' = "1"
    /\ fatal' = site
    /\ workers' = [i \in Index |->
                     IF workers[i].pc = "idle" THEN workers[i]
                     ELSE KilledWorker]

(***************************************************************************)
(* run (src/main.go:64-103)                                                *)
(***************************************************************************)
\* src/main.go:65-67.
FatalEmptyUrls ==
    /\ exit = "running" /\ mainpc = "flags"
    /\ IsBlankUrls(urls)
    /\ Fatal("urls")
    /\ UNCHANGED <<urls, output, mainpc, urlList, next, dir, files>>
    /\ UNCHANGED convVars

\* src/main.go:68-70.
FatalEmptyOutput ==
    /\ exit = "running" /\ mainpc = "flags"
    /\ ~IsBlankUrls(urls)
    /\ Len(TrimSpace(output)) = 0
    /\ Fatal("output")
    /\ UNCHANGED <<urls, output, mainpc, urlList, next, dir, files>>
    /\ UNCHANGED convVars

\* src/main.go:71-74: both flags pass; the list is split.
SplitUrls ==
    /\ exit = "running" /\ mainpc = "flags"
    /\ ~IsBlankUrls(urls)
    /\ Len(TrimSpace(output)) # 0
    /\ urlList' = urls
    /\ mainpc' = "dir"
    /\ UNCHANGED <<urls, output, next, dir, files, workers, exit, fatal>>
    /\ UNCHANGED convVars

\* checkAndCreateDir (src/main.go:105-116) when os.Stat fails with an error
\* other than "does not exist".
DirStatFails ==
    /\ exit = "running" /\ mainpc = "dir"
    /\ Fatal("stat")
    /\ UNCHANGED <<urls, output, mainpc, urlList, next, dir, files>>
    /\ UNCHANGED convVars

\* checkAndCreateDir when the directory exists.
DirExists ==
    /\ exit = "running" /\ mainpc = "dir"
    /\ dir = "present"
    /\ mainpc' = "loop"
    /\ UNCHANGED <<urls, output, urlList, next, dir, files, workers, exit, fatal>>
    /\ UNCHANGED convVars

\* checkAndCreateDir when the directory is missing and os.MkdirAll makes it.
DirCreated ==
    /\ exit = "running" /\ mainpc = "dir"
    /\ dir = "absent"
    /\ dir' = "present"
    /\ mainpc' = "loop"
    /\ UNCHANGED <<urls, output, urlList, next, files, workers, exit, fatal>>
    /\ UNCHANGED convVars

\* checkAndCreateDir when the directory is missing and os.MkdirAll fails.
DirCreateFails ==
    /\ exit = "running" /\ mainpc = "dir"
    /\ dir = "absent"
    /\ Fatal("mkdir")
    /\ UNCHANGED <<urls, output, mainpc, urlList, next, dir, files>>
    /\ UNCHANGED convVars

\* The loop started before checkAndCreateDir has run.
Launch_BeforeDir ==
    /\ exit = "running" /\ mainpc \in {"dir", "loop"}
    /\ next < Len(urlList)
    /\ workers' = [workers EXCEPT ![next] =
                     [IdleWorker EXCEPT
                        !.pc = "new",
                        !.u = Str(TrimSpace(urlList[next + 1])),
                        !.resFile = ResFile(output, next)]]
    /\ next' = next + 1
    /\ UNCHANGED <<urls, output, mainpc, urlList, dir, files, exit, fatal>>
    /\ UNCHANGED convVars

\* src/main.go:82-97: one turn of the loop.  eg.Go starts a goroutine for
\* the closure, which holds this turn's u and resFile (both are declared in
\* the loop body, so every closure has its own).
Launch ==
    /\ exit = "running" /\ mainpc = "loop"
    /\ next < Len(urlList)
    /\ workers' = [workers EXCEPT ![next] =
                     [IdleWorker EXCEPT
                        !.pc = "new",
                        !.u = Str(TrimSpace(urlList[next + 1])),
                        !.resFile = ResFile(output, next)]]
    /\ next' = next + 1
    /\ UNCHANGED <<urls, output, mainpc, urlList, dir, files, exit, fatal>>
    /\ UNCHANGED convVars

\* The range loop is over.
LoopEnds ==
    /\ exit = "running" /\ mainpc = "loop"
    /\ next = Len(urlList)
    /\ mainpc' = "wait"
    /\ UNCHANGED <<urls, output, urlList, next, dir, files, workers, exit, fatal>>
    /\ UNCHANGED convVars

(***************************************************************************)
(* The goroutine of index i: the closure of src/main.go:86-96, with        *)
(* newDefaultWorker (130-142), fetchAndProcess (148-165), jsonToXml        *)
(* (168-186) and close (143-145).                                          *)
(***************************************************************************)
\* newDefaultWorker that opens no file: the file comes with the first Write.
NewWorker_NoCreate(i) ==
    /\ exit = "running" /\ workers[i].pc = "new"
    /\ workers' = [workers EXCEPT ![i].pc = "get", ![i].sink = "open"]
    /\ UNCHANGED <<urls, output, mainpc, urlList, next, dir, files, exit, fatal>>
    /\ UNCHANGED convVars

\* newDefaultWorker: os.Create makes the file, or empties it.
NewWorker(i) ==
    /\ exit = "running" /\ workers[i].pc = "new"
    /\ files' = [files EXCEPT ![workers[i].resFile] =
                    [exists |-> TRUE, content |-> <<>>, writers |-> @.writers]]
    /\ workers' = [workers EXCEPT ![i].pc = "get", ![i].sink = "open"]
    /\ UNCHANGED <<urls, output, mainpc, urlList, next, dir, exit, fatal>>
    /\ UNCHANGED convVars

\* newDefaultWorker: os.Create fails (src/main.go:132-134).
NewWorkerFails(i) ==
    /\ exit = "running" /\ workers[i].pc = "new"
    /\ Fatal("create")
    /\ UNCHANGED <<urls, output, mainpc, urlList, next, dir, files>>
    /\ UNCHANGED convVars

\* fetchAndProcess: the GET fails (src/main.go:149-153).
GetFails(i) ==
    /\ exit = "running" /\ workers[i].pc = "get"
    /\ ~Get(workers[i].u).err.nil
    /\ workers' = [workers EXCEPT
                     ![i].pc = "close",
                     ![i].gets = @ + 1,
                     ![i].err = Wrap(Get(workers[i].u).err, "get failed")]
    /\ UNCHANGED <<urls, output, mainpc, urlList, next, dir, files, exit, fatal>>
    /\ UNCHANGED convVars

\* fetchAndProcess: the GET returns a response.
GetResponds(i) ==
    /\ exit = "running" /\ workers[i].pc = "get"
    /\ Get(workers[i].u).err.nil
    /\ workers' = [workers EXCEPT
                     ![i].pc = "resp",
                     ![i].gets = @ + 1,
                     ![i].resp = Get(workers[i].u).resp]
    /\ UNCHANGED <<urls, output, mainpc, urlList, next, dir, files, exit, fatal>>
    /\ UNCHANGED convVars

\* fetchAndProcess closing the body only after the Content-Type check,
\* without defer.
RejectContentType_NoClose(i) ==
    /\ exit = "running" /\ workers[i].pc = "resp"
    /\ ~ContentTypeOK(HeaderGet(workers[i].resp.header))
    /\ workers' = [workers EXCEPT
                     ![i].pc = "close",
                     ![i].err = ContentTypeError(HeaderGet(workers[i].resp.header))]
    /\ UNCHANGED <<urls, output, mainpc, urlList, next, dir, files, exit, fatal>>
    /\ UNCHANGED convVars

\* fetchAndProcess: the Content-Type is not application/json
\* (src/main.go:155-159); the deferred resp.Body.Close() runs.
RejectContentType(i) ==
    /\ exit = "running" /\ workers[i].pc = "resp"
    /\ ~ContentTypeOK(HeaderGet(workers[i].resp.header))
    /\ workers' = [workers EXCEPT
                     ![i].pc = "close",
                     ![i].err = ContentTypeError(HeaderGet(workers[i].resp.header)),
                     ![i].respCloses = @ + 1]
    /\ UNCHANGED <<urls, output, mainpc, urlList, next, dir, files, exit, fatal>>
    /\ UNCHANGED convVars

\* fetchAndProcess returning the error of ioutil.ReadAll.
ReadBodyFails_Propagate(i) ==
    /\ exit = "running" /\ workers[i].pc = "resp"
    /\ ContentTypeOK(HeaderGet(workers[i].resp.header))
    /\ ~workers[i].resp.readOk
    /\ workers' = [workers EXCEPT
                     ![i].pc = "close",
                     ![i].reads = @ + 1,
                     ![i].err = Wrap(NewError("unexpected EOF"), "read"),
                     ![i].respCloses = @ + 1]
    /\ UNCHANGED <<urls, output, mainpc, urlList, next, dir, files, exit, fatal>>
    /\ UNCHANGED convVars

\* fetchAndProcess: ioutil.ReadAll fails and nil is returned
\* (src/main.go:160-163).
ReadBodyFails(i) ==
    /\ exit = "running" /\ workers[i].pc = "resp"
    /\ ContentTypeOK(HeaderGet(workers[i].resp.header))
    /\ ~workers[i].resp.readOk
    /\ workers' = [workers EXCEPT
                     ![i].pc = "close",
                     ![i].reads = @ + 1,
                     ![i].err = Nil,
                     ![i].respCloses = @ + 1]
    /\ UNCHANGED <<urls, output, mainpc, urlList, next, dir, files, exit, fatal>>
    /\ UNCHANGED convVars

\* fetchAndProcess: ioutil.ReadAll returns the body, which is read off the
\* response.
ReadBody(i) ==
    /\ exit = "running" /\ workers[i].pc = "resp"
    /\ ContentTypeOK(HeaderGet(workers[i].resp.header))
    /\ workers[i].resp.readOk
    /\ workers' = [workers EXCEPT
                     ![i].pc = "conv",
                     ![i].reads = @ + 1,
                     ![i].body = workers[i].resp.body,
                     ![i].resp.body = <<>>]
    /\ UNCHANGED <<urls, output, mainpc, urlList, next, dir, files, exit, fatal>>
    /\ UNCHANGED convVars

\* The bodies the URLs answer with.
Bodies == { Get(Str(TrimSpace(e))).resp.body : e \in Entries \cup {<<>>} }

\* jsonToXml of each body, for each outcome of its Write.
Conversions ==
    [d \in Bodies |-> [wr \in WriteOutcomes |-> jsonToXml(d, wr)]]

\* A Write of `data` through a file handle at offset 0.
WriteAt0(content, data) ==
    data \o SubSeq(content, Len(data) + 1, Len(content))

\* fetchAndProcess: jsonToXml(body, w.writer) (src/main.go:164), whose
\* Write, if it comes to it, has outcome wr; fetchAndProcess returns, its
\* body is gone and the deferred resp.Body.Close() runs.
Convert(i) ==
    /\ exit = "running" /\ workers[i].pc = "conv"
    /\ \E wr \in WriteOutcomes :
          LET r == Conversions[workers[i].body][wr]
          IN  /\ workers' = [workers EXCEPT
                               ![i].pc = "close",
                               ![i].convs = @ + 1,
                               ![i].writes = @ + r.writes,
                               ![i].body = <<>>,
                               ![i].err = r.err,
                               ![i].respCloses = @ + 1]
              /\ files' = IF r.writes = 0 THEN files
                          ELSE [files EXCEPT
                                  ![workers[i].resFile].content =
                                     WriteAt0(@, r.written),
                                  ![workers[i].resFile].writers =
                                     @ \cup {i}]
    /\ UNCHANGED <<urls, output, mainpc, urlList, next, dir, exit, fatal>>
    /\ UNCHANGED convVars

\* The closure closing the file only after a failure-free fetchAndProcess.
Finish_CloseOnSuccess(i) ==
    /\ exit = "running" /\ workers[i].pc = "close"
    /\ workers' = [workers EXCEPT
                     ![i].pc = "done",
                     ![i].logged = IF workers[i].err.nil THEN "finished"
                                   ELSE "failed",
                     ![i].ret = Nil,
                     ![i].sink = IF workers[i].err.nil THEN "closed" ELSE "open",
                     ![i].closes = IF workers[i].err.nil THEN @ + 1 ELSE @]
    /\ UNCHANGED <<urls, output, mainpc, urlList, next, dir, files, exit, fatal>>
    /\ UNCHANGED convVars

\* The closure returning the error of fetchAndProcess to the group.
Finish_ReturnErr(i) ==
    /\ exit = "running" /\ workers[i].pc = "close"
    /\ workers' = [workers EXCEPT
                     ![i].pc = "done",
                     ![i].logged = IF workers[i].err.nil THEN "finished"
                                   ELSE "failed",
                     ![i].ret = workers[i].err,
                     ![i].sink = "closed",
                     ![i].closes = @ + 1]
    /\ UNCHANGED <<urls, output, mainpc, urlList, next, dir, files, exit, fatal>>
    /\ UNCHANGED convVars

\* The closure ends (src/main.go:90-95): the outcome is logged, nil is
\* returned whatever the outcome, and the deferred w.close() closes the
\* file.
Finish(i) ==
    /\ exit = "running" /\ workers[i].pc = "close"
    /\ workers' = [workers EXCEPT
                     ![i].pc = "done",
                     ![i].logged = IF workers[i].err.nil THEN "finished"
                                   ELSE "failed",
                     ![i].ret = Nil,
                     ![i].sink = "closed",
                     ![i].closes = @ + 1]
    /\ UNCHANGED <<urls, output, mainpc, urlList, next, dir, files, exit, fatal>>
    /\ UNCHANGED convVars

(***************************************************************************)
(* run: the join (src/main.go:98-102)                                      *)
(***************************************************************************)
Launched == {i \in Index : workers[i].pc # "idle"}

\* A Wait that returns as soon as one goroutine is done.
AllDone_Any == \E i \in Launched : workers[i].pc = "done"

\* eg.Wait() returns once every goroutine started with eg.Go has returned.
AllDone == \A i \in Launched : workers[i].pc = "done"

\* What eg.Wait() returns: the first non-nil error a goroutine returned.
WaitError ==
    IF \A i \in Launched : workers[i].ret.nil THEN Nil
    ELSE workers[CHOOSE i \in Launched : ~workers[i].ret.nil].ret

\* src/main.go:99-101.
Wait ==
    /\ exit = "running" /\ mainpc = "wait"
    /\ AllDone
    /\ IF WaitError.nil
       THEN mainpc' = "summary" /\ UNCHANGED <<exit, fatal, workers>>
       ELSE Fatal("join") /\ UNCHANGED mainpc
    /\ UNCHANGED <<urls, output, urlList, next, dir, files>>
    /\ UNCHANGED convVars

\* src/main.go:102: the summary is logged, run returns, and so does main:
\* the process exits with status 0.
Summary ==
    /\ exit = "running" /\ mainpc = "summary"
    /\ mainpc' = "returned"
    /\ exit' = "0"
    /\ UNCHANGED <<urls, output, urlList, next, dir, files, workers, fatal>>
    /\ UNCHANGED convVars

Next ==
    \/ FatalEmptyUrls
    \/ FatalEmptyOutput
    \/ SplitUrls
    \/ DirStatFails
    \/ DirExists
    \/ DirCreated
    \/ DirCreateFails
    \/ Launch
    \/ LoopEnds
    \/ \E i \in Index : NewWorker(i)
    \/ \E i \in Index : NewWorkerFails(i)
    \/ \E i \in Index : GetFails(i)
    \/ \E i \in Index : GetResponds(i)
    \/ \E i \in Index : RejectContentType(i)
    \/ \E i \in Index : ReadBodyFails(i)
    \/ \E i \in Index : ReadBody(i)
    \/ \E i \in Index : Convert(i)
    \/ \E i \in Index : Finish(i)
    \/ Wait
    \/ Summary

Spec == Init /\ [][Next]_vars

\* The steps of run itself, and the steps of the goroutine of index i.
RunStep ==
    \/ FatalEmptyUrls
    \/ FatalEmptyOutput
    \/ SplitUrls
    \/ DirStatFails
    \/ DirExists
    \/ DirCreated
    \/ DirCreateFails
    \/ Launch
    \/ LoopEnds
    \/ Wait
    \/ Summary

WorkerStep(i) ==
    \/ NewWorker(i)
    \/ NewWorkerFails(i)
    \/ GetFails(i)
    \/ GetResponds(i)
    \/ RejectContentType(i)
    \/ ReadBodyFails(i)
    \/ ReadBody(i)
    \/ Convert(i)
    \/ Finish(i)

\* The run under the Go scheduler, which lets every goroutine that can take
\* a step take one; a GET and the read of its body end, with a response or
\* an error, within the client's Timeout (src/main.go:136-138), and the
\* calls on the file system return.
SpecLive ==
    /\ Init
    /\ [][Next]_vars
    /\ WF_vars(RunStep)
    /\ \A i \in Index : WF_vars(WorkerStep(i))

(***************************************************************************)
(* The converter on its own: jsonToXml applied to the JSON encoding of a   *)
(* Record or to a given document, as TestJsonRespToXml does                *)
(* (src/main_test.go:95-126), and the XML it wrote decoded again.          *)
(***************************************************************************)
IdValues == {0, 7, 10, -3}
Strs == SeqsUpTo(Chars, MaxLen)
ShortStrs == {<<>>, <<"a">>}

Records ==
    [Id : IdValues, FirstName : Strs, LastName : ShortStrs,
     City : Strs, State : ShortStrs]

Documents ==
    { DocValid, DocOk, DocUnknown, DocMalformed, DocInvalid,
      \* null, {}, [], "bar", 7, and nothing at all
      <<L("null")>>, <<P("{"), P("}")>>, <<P("["), P("]")>>,
      <<S(<<"bar">>)>>, <<N(7)>>, <<>>,
      \* {"Id": 0} and {"first_name": null, "City": ""}
      <<P("{"), S(<<"Id">>), P(":"), N(0), P("}")>>,
      <<P("{"), S(<<"first_name">>), P(":"), L("null"), P(","),
        S(<<"City">>), P(":"), S(<<>>), P("}")>>,
      \* {"Id": "x"}, {"Id": 1.5} and {"State": 7, "City": "a"}
      <<P("{"), S(<<"Id">>), P(":"), S(<<"x">>), P("}")>>,
      <<P("{"), S(<<"Id">>), P(":"), Frac, P("}")>>,
      <<P("{"), S(<<"State">>), P(":"), N(7), P(","),
        S(<<"City">>), P(":"), S(<<"a">>), P("}")>>,
      \* {"foo": {"x": [1, null]}, "state": "a"}
      <<P("{"), S(<<"foo">>), P(":"), P("{"), S(<<"x">>), P(":"), P("["),
        N(1), P(","), L("null"), P("]"), P("}"), P(","),
        S(<<"state">>), P(":"), S(<<"a">>), P("}")>>,
      \* {"FirstName": "a"}: the field has the json tag first_name
      <<P("{"), S(<<"FirstName">>), P(":"), S(<<"a">>), P("}")>>,
      \* {"City": "a", "City": ""}: the later member wins
      <<P("{"), S(<<"City">>), P(":"), S(<<"a">>), P(","),
        S(<<"City">>), P(":"), S(<<>>), P("}")>>,
      \* {"City": "a",}  {"City" "a"}  {"City": bar}  {} {}
      <<P("{"), S(<<"City">>), P(":"), S(<<"a">>), P(","), P("}")>>,
      <<P("{"), S(<<"City">>), S(<<"a">>), P("}")>>,
      <<P("{"), S(<<"City">>), P(":"), BadLexeme, P("}")>>,
      <<P("{"), P("}"), P("{"), P("}")>> }

InitConv == RunIdle /\ ConvIdle

\* The input is json.Marshal of a Record.
EncodeRecord ==
    /\ cpc = "start"
    /\ \E r \in Records :
          /\ crec' = r
          /\ cdata' = jsonEncode(r)
    /\ csrc' = "record"
    /\ cpc' = "input"
    /\ UNCHANGED <<cres, cdec>>
    /\ UNCHANGED runVars

\* The input is a given document.
TakeDocument ==
    /\ cpc = "start"
    /\ \E d \in Documents : cdata' = d
    /\ csrc' = "document"
    /\ cpc' = "input"
    /\ UNCHANGED <<crec, cres, cdec>>
    /\ UNCHANGED runVars

\* jsonToXml(cdata, w) for a sink w whose Write has outcome wr.
CallJsonToXml ==
    /\ cpc = "input"
    /\ \E wr \in WriteOutcomes : cres' = jsonToXml(cdata, wr)
    /\ cpc' = "converted"
    /\ UNCHANGED <<crec, csrc, cdata, cdec>>
    /\ UNCHANGED runVars

\* xml.Unmarshal of what a successful jsonToXml wrote.
CallXmlDecode ==
    /\ cpc = "converted"
    /\ cres.err.nil
    /\ cdec' = xmlDecode(cres.written)
    /\ cpc' = "decoded"
    /\ UNCHANGED <<crec, csrc, cdata, cres>>
    /\ UNCHANGED runVars

\* p.IsEmpty() on a Record, as TestDataIsEmpty calls it
\* (src/main_test.go:128-133); the harness ends at what the call returned.
CallIsEmpty ==
    /\ cpc = "start"
    /\ \E r \in Records :
          /\ crec' = r
          /\ cpc' = IF IsEmpty(r) THEN "empty" ELSE "notEmpty"
    /\ csrc' = "record"
    /\ UNCHANGED <<cdata, cres, cdec>>
    /\ UNCHANGED runVars

NextConv ==
    \/ EncodeRecord
    \/ TakeDocument
    \/ CallJsonToXml
    \/ CallXmlDecode
    \/ CallIsEmpty

SpecConv == InitConv /\ [][NextConv]_vars

(***************************************************************************)
(* Properties                                                              *)
(***************************************************************************)
\* The indexes of the URL list.
UrlIndex == {i \in Index : i < Len(urlList)}

\* The URL at index i, as the closure passes it to fetchAndProcess.
UrlAt(i) == Str(TrimSpace(urlList[i + 1]))

\* The goroutines that run or have finished.
Alive == {i \in Index : workers[i].pc \notin {"idle", "killed"}}

\* fetchAndProcess of worker i has returned.
Returned(i) == workers[i].pc \in {"close", "done"}

\* The URLs of the flags.
UrlNames == {Str(TrimSpace(e)) : e \in Entries \cup {<<>>}}

\* The URLs that answer with the right Content-Type and a readable body
\* that json.Unmarshal decodes to a non-empty jsonData.
ConvertibleUrls ==
    {u \in UrlNames :
        LET g == Get(u)
        IN  /\ g.err.nil
            /\ HeaderGet(g.resp.header) = "application/json"
            /\ g.resp.readOk
            /\ Unmarshal(g.resp.body).err = "nil"
            /\ Unmarshal(g.resp.body).p # ZeroData}

\* The XML document of each convertible URL.
XmlOfUrl ==
    [u \in UrlNames |->
        IF u \in ConvertibleUrls
        THEN MarshalIndent(Unmarshal(Get(u).resp.body).p, Prefix, Indent)
        ELSE <<>>]

UrlConverts(i) == UrlAt(i) \in ConvertibleUrls

UrlXml(i) == XmlOfUrl[UrlAt(i)]

\* s is a first part of t.
IsPrefix(s, t) == Len(s) <= Len(t) /\ s = SubSeq(t, 1, Len(s))

\* C1: a failing Worker, whatever the failure, neither aborts the run nor
\* keeps a sibling from its result: once a Worker is launched the process
\* never exits with a failure status, and when the process has exited
\* every URL that answers convertible JSON has its XML in its own file
\* unless the Write of its own Worker failed.
C1_FailureIsolation ==
    /\ exit = "1" => Launched = {}
    /\ exit # "running" /\ Launched # {} =>
          \A i \in UrlIndex :
             UrlConverts(i) =>
                \/ files[ResFile(output, i)].content = UrlXml(i)
                \/ workers[i].err.root = WriteError.root

\* C8: the process exits with a failure status only for an empty --urls
\* flag, an empty --output flag, a failure of the check or creation of the
\* output directory, or a non-nil error from the join.
C8_ExitStatus ==
    exit = "1" =>
       \/ mainpc = "flags" /\ IsBlankUrls(urls)
       \/ mainpc = "flags" /\ Len(TrimSpace(output)) = 0
       \/ mainpc = "dir"
       \/ mainpc = "wait" /\ ~WaitError.nil

\* C2: the sink of a Worker receives at most one Write call; when
\* fetchAndProcess returns nil after calling jsonToXml, exactly one Write
\* has put the complete XML document in the sink; when it returns a
\* transport, Content-Type, decode or ErrUnknownJSON error (any error but a
\* failed Write), no Write was called and nothing is in the sink.
C2_WriteOnce ==
    \A i \in Alive :
       /\ workers[i].writes <= 1
       /\ Returned(i) /\ workers[i].err.nil /\ workers[i].convs = 1 =>
             /\ workers[i].writes = 1
             /\ UrlConverts(i)
             /\ files[workers[i].resFile].content = UrlXml(i)
       /\ Returned(i) /\ ~workers[i].err.nil
             /\ workers[i].err.root # WriteError.root =>
             /\ workers[i].writes = 0
             /\ files[workers[i].resFile].content = <<>>

\* C2 witness: one Worker returned nil with its one Write done, another
\* returned ErrUnknownJSON with none.
C2_Witness ==
    \E i, j \in Alive :
       /\ Returned(i) /\ workers[i].err.nil /\ workers[i].writes = 1
       /\ Returned(j) /\ workers[j].err = ErrUnknownJSON /\ workers[j].writes = 0

\* C3: when the response's Content-Type is not exactly "application/json"
\* (absent included), fetchAndProcess returns an error whose message holds
\* the quoted header value, and has not read the body, not called jsonToXml
\* and not written to the sink.
C3_ContentType ==
    \A i \in Alive :
       LET h == HeaderGet(workers[i].resp.header)
       IN  workers[i].resp.present /\ h # "application/json" =>
              /\ workers[i].reads = 0
              /\ workers[i].convs = 0
              /\ workers[i].writes = 0
              /\ files[workers[i].resFile].content = <<>>
              /\ Returned(i) =>
                    /\ ~workers[i].err.nil
                    /\ workers[i].err.msg =
                          "Invalid Content-Type header. Expected application/json, received \""
                          \o h \o "\""

\* C3 witness: one Worker was answered without a Content-Type, another with
\* "application/json; charset=utf-8", and both have returned.
C3_Witness ==
    \E i, j \in Alive :
       /\ workers[i].pc = "done" /\ workers[i].resp.present
       /\ workers[i].resp.header = <<>>
       /\ workers[j].pc = "done"
       /\ workers[j].resp.header = <<"application/json; charset=utf-8">>

\* C5: a Worker has its sink open before its GET begins and until it
\* finishes, and a finished Worker has closed it exactly once, whatever
\* fetchAndProcess returned.
C5_SinkLifetime ==
    \A i \in Index :
       /\ workers[i].pc \in {"idle", "new"} =>
             workers[i].sink = "none" /\ workers[i].gets = 0
       /\ workers[i].pc \in {"get", "resp", "conv", "close"} =>
             /\ workers[i].sink = "open" /\ workers[i].closes = 0
             /\ files[workers[i].resFile].exists
       /\ workers[i].pc = "done" =>
             workers[i].sink = "closed" /\ workers[i].closes = 1

\* C5 witness: a Worker whose Write failed and a Worker that succeeded have
\* both finished.
C5_Witness ==
    \E i, j \in Index :
       /\ workers[i].pc = "done" /\ workers[i].err.root = WriteError.root
       /\ workers[j].pc = "done" /\ workers[j].err.nil /\ workers[j].writes = 1

\* C6: once run is past its wait step, every URL of the list has a Worker,
\* every Worker has finished and no sink is open.
C6_Join ==
    mainpc \in {"summary", "returned"} =>
       /\ Launched = UrlIndex
       /\ \A i \in Launched :
             workers[i].pc = "done" /\ workers[i].sink = "closed"

\* C6 witness: run has returned after a Worker that failed and a Worker
\* that succeeded.
C6_Witness ==
    /\ mainpc = "returned"
    /\ \E i, j \in Alive :
          /\ workers[i].logged = "failed"
          /\ workers[j].logged = "finished" /\ workers[j].writes = 1

\* C7: the Worker of index i has the sink <output>/<i>.xml and the URL of
\* index i, no two Workers have the same sink, a file exists only for the
\* Worker that made it and is written by that Worker alone, and what it
\* holds is (a first part of) the XML of the URL at index i.
C7_PrivateOutputs ==
    /\ \A i \in Alive :
          /\ workers[i].resFile = Str(output) \o "/" \o Str(Itoa(i)) \o ".xml"
          /\ workers[i].u = UrlAt(i)
          /\ files[workers[i].resFile].writers \subseteq {i}
          /\ files[workers[i].resFile].content # <<>> =>
                /\ UrlConverts(i)
                /\ IsPrefix(files[workers[i].resFile].content, UrlXml(i))
    /\ \A i, j \in Alive : i # j => workers[i].resFile # workers[j].resFile
    /\ \A f \in Paths :
          files[f].exists /\ exit # "1" =>
             \E i \in Alive : workers[i].resFile = f /\ workers[i].pc # "new"

\* C7 witness: the Worker of index 1 has finished with its XML written
\* while the Worker of index 0, for another convertible URL, has yet to get
\* its response.
C7_Witness ==
    /\ Len(urlList) >= 2
    /\ workers[1].pc = "done" /\ workers[1].writes = 1 /\ workers[1].err.nil
    /\ workers[0].pc = "get"
    /\ UrlConverts(0) /\ UrlXml(0) # UrlXml(1)

\* jsonToXml has been called in the converter harness.
Converted == cpc \in {"converted", "decoded"}

\* Documents that are valid JSON and hold no non-zero value for any field
\* of jsonData.
ZeroDocuments ==
    { DocUnknown, jsonEncode(ZeroData),
      <<L("null")>>, <<P("{"), P("}")>>,
      <<P("{"), S(<<"Id">>), P(":"), N(0), P("}")>>,
      <<P("{"), S(<<"first_name">>), P(":"), L("null"), P(","),
        S(<<"City">>), P(":"), S(<<>>), P("}")>>,
      <<P("{"), S(<<"FirstName">>), P(":"), S(<<"a">>), P("}")>>,
      <<P("{"), S(<<"City">>), P(":"), S(<<"a">>), P(","),
        S(<<"City">>), P(":"), S(<<>>), P("}")>> }

\* Documents that are not valid JSON.
MalformedDocuments ==
    { DocMalformed, DocInvalid, <<>>,
      <<P("{"), S(<<"City">>), P(":"), S(<<"a">>), P(","), P("}")>>,
      <<P("{"), S(<<"City">>), S(<<"a">>), P("}")>>,
      <<P("{"), S(<<"City">>), P(":"), BadLexeme, P("}")>>,
      <<P("{"), P("}"), P("{"), P("}")>> }

\* C4: on valid JSON that decodes without error to the all-zero jsonData,
\* jsonToXml returns the sentinel ErrUnknownJSON itself; on input that is
\* not valid JSON it returns an error wrapped as "json.Unmarshal: ..."
\* whose chain does not hold ErrUnknownJSON; in both cases no Write is
\* called and nothing reaches the sink.
C4_ErrorKinds ==
    Converted =>
       /\ \/ cdata \in ZeroDocuments
          \/ ValidJSON(cdata) /\ Unmarshal(cdata) = [p |-> ZeroData, err |-> "nil"]
          => /\ cres.err = ErrUnknownJSON
             /\ cres.writes = 0 /\ cres.written = <<>>
       /\ cdata \in MalformedDocuments \/ ~ValidJSON(cdata)
          => /\ ~cres.err.nil
             /\ cres.err.root # ErrUnknownJSON.root
             /\ cres.err.msg = "json.Unmarshal: " \o SyntaxError.msg
             /\ cres.writes = 0 /\ cres.written = <<>>

\* C4 witness: jsonToXml has returned ErrUnknownJSON for {"foo":"bar"}.
C4_Witness ==
    /\ cpc = "converted"
    /\ cdata = DocUnknown
    /\ cres.err = ErrUnknownJSON

\* The decimal text of the Id values of the model.
DecimalText(n) ==
    CASE n = 0 -> "0"
      [] n = 7 -> "7"
      [] n = 10 -> "10"
      [] n = -3 -> "-3"

\* C9 as claimed: {"first_name": "firstname", "last_name":"lastname"} is
\* converted to a document whose root element is named "record".
C9_RootRecord ==
    Converted /\ cdata = DocValid /\ cres.err.nil =>
       Str(cres.written) =
          " <record>\n  <Id>0</Id>\n  <name>\n   <first>firstname</first>\n   <last>lastname</last>\n  </name>\n  <City></City>\n  <State></State>\n </record>"

\* C9: a successful jsonToXml writes the jsonData with a root element named
\* "jsonData" and the children Id, name (with first and last), City and
\* State in this order, every line led by one space and one more space per
\* level, the Id as decimal text and an empty string as an empty element
\* with a start and an end tag.
C9_Format ==
    Converted /\ cres.err.nil =>
       LET p == Unmarshal(cdata).p
       IN  /\ Str(cres.written) =
                " <jsonData>\n  <Id>" \o DecimalText(p.Id) \o "</Id>\n  <name>\n   <first>"
                \o Str(EscapeText(p.FirstName)) \o "</first>\n   <last>"
                \o Str(EscapeText(p.LastName)) \o "</last>\n  </name>\n  <City>"
                \o Str(EscapeText(p.City)) \o "</City>\n  <State>"
                \o Str(EscapeText(p.State)) \o "</State>\n </jsonData>"
           /\ cdata = DocValid =>
                 Str(cres.written) =
                    " <jsonData>\n  <Id>0</Id>\n  <name>\n   <first>firstname</first>\n   <last>lastname</last>\n  </name>\n  <City></City>\n  <State></State>\n </jsonData>"
           /\ cdata = DocOk =>
                 Str(cres.written) =
                    " <jsonData>\n  <Id>10</Id>\n  <name>\n   <first>firstname</first>\n   <last>lastname</last>\n  </name>\n  <City></City>\n  <State></State>\n </jsonData>"

\* C9 witness: jsonToXml has converted
\* {"first_name": "firstname", "last_name":"lastname"}.
C9_Witness ==
    /\ cpc = "converted"
    /\ cdata = DocValid
    /\ cres.err.nil /\ cres.writes = 1

\* Text that XML can hold: every character is in the XML character range.
IsXmlText(str) == \A k \in 1..Len(str) : str[k] # NonXmlChar

\* C10 as claimed: every non-empty Record comes back from xml.Unmarshal of
\* jsonToXml of its JSON encoding.
C10_RoundTripAll ==
    cpc = "decoded" /\ csrc = "record" /\ ~IsEmpty(crec) =>
       cdec.ok /\ cdec.p = crec

\* C10: jsonToXml converts the JSON encoding of every non-empty Record (it
\* fails only when the Write fails), and when the strings of the Record
\* hold only characters of the XML character range, xml.Unmarshal of what
\* was written gives back the Record, equal in all five fields.
C10_RoundTrip ==
    /\ Converted /\ csrc = "record" /\ crec # ZeroData =>
          cres.writes = 1 /\ cres.err.root \in {"", WriteError.root}
    /\ cpc = "decoded" /\ csrc = "record" /\ crec # ZeroData
          /\ IsXmlText(crec.FirstName) /\ IsXmlText(crec.LastName)
          /\ IsXmlText(crec.City) /\ IsXmlText(crec.State) =>
          /\ cdec.ok
          /\ cdec.p.Id = crec.Id
          /\ cdec.p.FirstName = crec.FirstName
          /\ cdec.p.LastName = crec.LastName
          /\ cdec.p.City = crec.City
          /\ cdec.p.State = crec.State

\* C10 witness: a Record with a negative Id and markup characters in its
\* strings has come back.
C10_Witness ==
    /\ cpc = "decoded" /\ csrc = "record"
    /\ crec.Id = -3 /\ crec.FirstName = <<"<">> /\ crec.City = <<"&">>
    /\ crec.LastName = <<"a">>
    /\ cdec.ok /\ cdec.p = crec

\* No GET has been issued and no output file exists.
NoFanOut ==
    /\ Launched = {}
    /\ \A i \in Index : workers[i].gets = 0
    /\ \A f \in Paths : ~files[f].exists

\* C11: the flag checks and the check or creation of the output directory
\* come before any Worker: while run is at either, and for good when either
\* ended the process (empty --urls, empty --output, directory not checked
\* or not created), no Worker is launched, no GET is issued and no output
\* file exists; a Worker is launched only after both passed, with the
\* directory present, and run never goes back to them.
C11_SetupFirst ==
    /\ mainpc \in {"flags", "dir"} => NoFanOut
    /\ fatal \in {"urls", "output", "stat", "mkdir"} =>
          /\ NoFanOut
          /\ exit = "1"
          /\ mainpc \in {"flags", "dir"}
    /\ Launched # {} =>
          /\ mainpc \in {"loop", "wait", "summary", "returned"}
          /\ ~IsBlankUrls(urls) /\ Len(TrimSpace(output)) # 0
          /\ dir = "present"
    /\ (\E f \in Paths : files[f].exists) => Launched # {}

\* C11 witness: os.MkdirAll failed on a run for two URLs, and the process
\* has exited.
C11_Witness ==
    /\ fatal = "mkdir" /\ exit = "1"
    /\ Len(urlList) = 2
    /\ dir = "absent"

\* The response of Worker i has the Content-Type application/json and a
\* body whose read fails.
BodyReadFails(i) ==
    /\ workers[i].resp.present
    /\ HeaderGet(workers[i].resp.header) = "application/json"
    /\ ~workers[i].resp.readOk

\* C12: when the response has the Content-Type application/json and the
\* read of its body fails, fetchAndProcess returns nil, jsonToXml is not
\* called and nothing is written to the sink; the closure logs the URL as
\* finished, not as failed, and returns nil to the group.
C12_BodyReadFailure ==
    \A i \in Alive :
       BodyReadFails(i) =>
          /\ workers[i].convs = 0
          /\ workers[i].writes = 0
          /\ files[workers[i].resFile].content = <<>>
          /\ Returned(i) => workers[i].err.nil /\ workers[i].reads = 1
          /\ workers[i].pc = "done" =>
                workers[i].logged = "finished" /\ workers[i].ret.nil

\* C12 witness: run has returned after a Worker whose body read failed.
C12_Witness ==
    /\ mainpc = "returned"
    /\ \E i \in Alive :
          /\ BodyReadFails(i)
          /\ workers[i].u = "cut"
          /\ workers[i].reads = 1
          /\ workers[i].logged = "finished"

\* C13: whatever fetchAndProcess returned (a transport, Content-Type,
\* decode, ErrUnknownJSON or write error, or nil), the closure returns nil
\* to the group: eg.Wait() never has a non-nil error, the log.Fatal of the
\* join never ends the process, and with all closures done run goes on to
\* its summary.
C13_JoinNeverFatal ==
    /\ \A i \in Index : workers[i].ret.nil
    /\ \A i \in Alive :
          workers[i].pc = "done" /\ ~workers[i].err.nil =>
             workers[i].logged = "failed"
    /\ WaitError.nil
    /\ fatal # "join"
    /\ mainpc \in {"summary", "returned"} => exit # "1"

\* C13 witness: run has returned after a Worker whose Write failed and a
\* Worker whose JSON was malformed.
C13_Witness ==
    /\ mainpc = "returned" /\ exit = "0"
    /\ \E i, j \in Alive :
          /\ workers[i].err.root = WriteError.root
          /\ workers[j].err.root = SyntaxError.root
          /\ workers[i].pc = "done" /\ workers[j].pc = "done"

\* C14: fetchAndProcess closes the body of the response it got exactly
\* once, when it returns and not before, whatever it returns (Content-Type
\* error, nil after a failed read, decode, ErrUnknownJSON or write error,
\* nil after the Write); when the GET failed there is no response and
\* nothing is read or closed.
C14_ResponseRelease ==
    \A i \in Alive :
       /\ ~Returned(i) => workers[i].respCloses = 0
       /\ Returned(i) =>
             /\ workers[i].gets = 1
             /\ workers[i].resp.present = Get(workers[i].u).err.nil
             /\ workers[i].respCloses = IF workers[i].resp.present THEN 1 ELSE 0
       /\ ~workers[i].resp.present =>
             workers[i].reads = 0 /\ workers[i].respCloses = 0

\* C14 witness: a Worker whose GET failed and a Worker that was answered
\* without a Content-Type have both returned from fetchAndProcess.
C14_Witness ==
    \E i, j \in Alive :
       /\ Returned(i) /\ ~workers[i].resp.present
       /\ workers[i].err.root = "Unknown url"
       /\ Returned(j) /\ workers[j].resp.present
       /\ workers[j].resp.header = <<>>
       /\ workers[j].respCloses = 1

\* run has reported its summary and returned, with a finished Worker for
\* every URL of the list.
Terminated ==
    /\ mainpc = "returned"
    /\ \A i \in UrlIndex : workers[i].pc = "done"

\* C15: once the setup has passed and run is at its loop, every Worker it
\* launches eventually finishes and run eventually passes the join and
\* reports the summary, whatever the URLs answer.
C15_Termination == (mainpc = "loop") ~> Terminated

\* What holds of the run instead: from its loop on, either it ends as C15
\* says or the log.Fatal of newDefaultWorker ends the process.
TerminatesUnlessCreateFails ==
    (mainpc = "loop") ~> (Terminated \/ fatal = "create")

\* The fields of p that do not hold their zero value.
NonZeroFields(p) ==
    {f \in {"Id", "FirstName", "LastName", "City", "State"} : p[f] # ZeroData[f]}

\* C16: IsEmpty() of a Record is true exactly when its Id is 0 and its
\* FirstName, LastName, City and State all have length 0; of a Record with
\* a single non-zero field it is false.
C16_IsEmpty ==
    cpc \in {"empty", "notEmpty"} =>
       /\ cpc = "empty" <=>
             /\ crec.Id = 0
             /\ Len(crec.FirstName) = 0 /\ Len(crec.LastName) = 0
             /\ Len(crec.City) = 0 /\ Len(crec.State) = 0
       /\ Cardinality(NonZeroFields(crec)) = 1 => cpc = "notEmpty"
       /\ cpc = "empty" <=> crec = ZeroData

\* C16 witness: IsEmpty() has returned false for a Record whose State alone
\* is set.
C16_Witness ==
    /\ cpc = "notEmpty"
    /\ crec = [ZeroData EXCEPT !.State = <<"a">>]

\* The output file of the URL at index i.
FileOf(i) == files[ResFile(output, i)]

\* C17 as claimed: after run has returned every URL of the list has its
\* file, which holds the XML of the URL when the Worker succeeded through
\* the Write and nothing when the Worker failed at any stage or the read of
\* the body failed.
C17_FinalFilesAll ==
    mainpc = "returned" =>
       \A i \in UrlIndex :
          /\ FileOf(i).exists
          /\ workers[i].err.nil /\ workers[i].writes = 1 =>
                FileOf(i).content = UrlXml(i)
          /\ ~workers[i].err.nil \/ BodyReadFails(i) =>
                FileOf(i).content = <<>>

\* C17: after run has returned every URL of the list has its file; the
\* file holds the XML of the URL when its Worker succeeded through the Write, nothing
\* when its Worker failed before the Write (transport, Content-Type, decode
\* or ErrUnknownJSON error) or the read of the body failed, and a first
\* part of the XML, which may be nothing, when the Write itself failed.
C17_FinalFiles ==
    mainpc = "returned" =>
       \A i \in UrlIndex :
          /\ FileOf(i).exists
          /\ workers[i].err.nil /\ workers[i].writes = 1 =>
                UrlConverts(i) /\ FileOf(i).content = UrlXml(i)
          /\ workers[i].err.nil /\ workers[i].writes = 0 =>
                BodyReadFails(i)
          /\ BodyReadFails(i) => FileOf(i).content = <<>>
          /\ ~workers[i].err.nil /\ workers[i].err.root # WriteError.root =>
                workers[i].writes = 0 /\ FileOf(i).content = <<>>
          /\ workers[i].err.root = WriteError.root =>
                /\ UrlConverts(i)
                /\ IsPrefix(FileOf(i).content, UrlXml(i))

\* C17 witness: run has returned from a list of two URLs, the first
\* converted into its file, the second with a body whose read failed and an
\* empty file.
C17_Witness ==
    /\ mainpc = "returned"
    /\ Len(urlList) = 2
    /\ workers[0].err.nil /\ workers[0].writes = 1
    /\ FileOf(0).content = UrlXml(0) /\ FileOf(0).content # <<>>
    /\ BodyReadFails(1)
    /\ FileOf(1).exists /\ FileOf(1).content = <<>>

=============================================================================
